---- MODULE Spec2Model ----
(***************************************************************************)
(* A model of testworld-go: a World owning a registry of replica groups    *)
(* (WorldContainer), each with one pendingContainer per replica that is    *)
(* filled in by its own goroutine, the WorldLog event timeline, and the   *)
(* test goroutine that calls New, NewContainer, the group operations and   *)
(* Destroy.                                                                *)
(*                                                                         *)
(* Strings are sequences of one-character strings, so that basename and    *)
(* the Sprintf name formats are computed as the code computes them.        *)
(***************************************************************************)
EXTENDS Integers, Sequences, FiniteSets, TLC

\* ------------------------------------------------------------------ bounds
\* at most this many NewContainer calls in one test
MaxGroups == 2
\* ContainerSpec.Replicas is drawn from 0..MaxReplicas
MaxReplicas == 2
\* at most this many pendingContainers in one World
MaxSlots == 2
\* at most this many group operations called from the test body
MaxOps == 1
\* at most this many pendingContainers in one World of SpecNaming
MaxNamedSlots == 4
\* the goroutines that call newEvent in SpecLog: the test goroutine and the
\* createFn goroutines
MaxCallers == 3
\* at most this many newEvent calls in one run of SpecLog
MaxEvents == 3
\* the clock of SpecLog and SpecFiles stops at this many seconds
MaxClock == 3

\* ----------------------------------------------------------------- strings
Digits == <<"0", "1", "2", "3", "4", "5", "6", "7", "8", "9">>

RECURSIVE Itoa(_)
\* the %d verb of fmt.Sprintf, for n >= 0
Itoa(n) == IF n < 10 THEN <<Digits[n + 1]>>
           ELSE Itoa(n \div 10) \o <<Digits[(n % 10) + 1]>>

\* strings.LastIndex(s, c), 1-based; 0 when c does not occur
LastIndex(s, c) ==
    IF \E k \in 1..Len(s) : s[k] = c
    THEN CHOOSE k \in 1..Len(s) : s[k] = c /\ \A j \in (k + 1)..Len(s) : s[j] # c
    ELSE 0

\* strings.Index(s, c), 1-based; 0 when c does not occur
Index(s, c) ==
    IF \E k \in 1..Len(s) : s[k] = c
    THEN CHOOSE k \in 1..Len(s) : s[k] = c /\ \A j \in 1..(k - 1) : s[j] # c
    ELSE 0

basename(s) ==
    LET t == IF LastIndex(s, "/") > 0
             THEN SubSeq(s, LastIndex(s, "/") + 1, Len(s)) ELSE s
    IN  IF Index(t, ":") > 0 THEN SubSeq(t, 1, Index(t, ":") - 1) ELSE t

\* t.Name() of the test that owns the World
WorldName == <<"T">>

\* ContainerSpec.Image: a reference with a path and a tag, "r/a:1", as in
\* "docker.io/library/nginx:1.19"
Images == { <<"r", "/", "a", ":", "1">> }

\* ContainerSpec.FromDockerfile.Context is left empty by every test
DockerfileContext == <<>>

\* the kind NewContainer derives from a spec
KindOf(image) ==
    IF basename(image) # <<>> THEN basename(image)
    ELSE IF basename(DockerfileContext) # <<>> THEN basename(DockerfileContext)
    ELSE <<"c", "o", "n", "t", "a", "i", "n", "e", "r">>

\* group names that count from 0
GroupNameFromZero(kind, n) == WorldName \o <<"-">> \o kind \o <<"-">> \o Itoa(n - 1)

\* fmt.Sprintf("%s-%s-%d", w.name, kind, n)
GroupName(kind, n) == WorldName \o <<"-">> \o kind \o <<"-">> \o Itoa(n)

\* replica names that count from 0
ReplicaNameFromZero(name, replicas, i) ==
    IF replicas > 1 THEN name \o <<"-">> \o Itoa(i - 1) ELSE name

\* fmt.Sprintf("%s-%d", name, i+1), or the group name for a single replica
ReplicaName(name, replicas, i) ==
    IF replicas > 1 THEN name \o <<"-">> \o Itoa(i) ELSE name

\* the network aliases of replica i
Aliases(name, replicas, i) ==
    IF replicas > 1 THEN <<ReplicaName(name, replicas, i), name>> ELSE <<name>>

\* spec.Replicas taken as it is
ReplicaCountRaw(r) == r

\* max(spec.Replicas, 1)
ReplicaCount(r) == IF r > 1 THEN r ELSE 1

\* a Go map read: the zero value for an absent key
MapGet(m, k) == IF k \in DOMAIN m THEN m[k] ELSE 0

\* a Go map write m[k] = v
MapPut(m, k, v) == [x \in DOMAIN m \cup {k} |-> IF x = k THEN v ELSE m[x]]

\* ------------------------------------------------------------------- state
VARIABLES
    main,            \* the test goroutine: its position and locals; returned is
                     \* the handle NewContainer has just returned, awaited the
                     \* Awaited field of the spec it was called with, answer
                     \* what the provider has just answered to a member-level call,
                     \* nilDestroy whether its latest step was a Destroy call
                     \* on a nil *World
    handles,         \* the WorldContainer values the test got from NewContainer
    containers,      \* World.containers: group name -> WorldContainer
    containerKinds,  \* World.containerKinds: kind -> count
    slots,           \* the pendingContainer objects, by allocation order
    tasks,           \* the createFn goroutines, one per pendingContainer
    worldLog,        \* World.worldLog
    history,         \* per pendingContainer: calls made to the provider, closes
                     \* of its channel, results its readers have read
    callbacks,       \* group name -> number of onDestroy invocations
    fatals,          \* the t.Fatalf calls of the test, in order
    reported,        \* what the latest step of the test goroutine reported with
                     \* t.Log: <<>> or the failure and the member it names
    el,              \* the WorldLog with its lock, start and finish times, as
                     \* the goroutines of SpecLog and SpecFiles use it
    callers,         \* those goroutines: position in newEvent and locals
    clock,           \* what time.Now() returns, in seconds
    eventsDir,       \* the files of WorldLog.eventsDir in the order they were
                     \* made: the name, and the id of the event whose output
                     \* the file holds
    combinedLog      \* what WorldLog.finish has written to the combined log:
                     \* the lines of the chart, then the files copied

progVars == <<main, handles, containers, containerKinds, slots, tasks, worldLog,
              history, callbacks, fatals, reported>>

logVars == <<el, callers, clock, eventsDir, combinedLog>>

vars == <<main, handles, containers, containerKinds, slots, tasks, worldLog,
          history, callbacks, fatals, reported, el, callers, clock, eventsDir,
          combinedLog>>

\* a nil *Event, a nil testcontainers.Container
NoEvent == 0
NilContainer == 0

\* the group operations of WorldContainer
Ops == {"Await", "Exec", "Wait", "LogFile"}

\* ContainerSpec.OnDestroy: nil, or the callback of the README, which calls
\* c.LogFile
Callbacks == {"nil", "LogFile"}

\* ---------------------------------------------------------------- WorldLog
\* an Event description: the format and its arguments
Desc(f, kind, who) == [fmt |-> f, kind |-> kind, who |-> who]

\* the *Event newEvent returns: nil for the dummy WorldLog
NewEventPtr(wl) == IF wl.enabled THEN Len(wl.events) + 1 ELSE NoEvent

\* a newEvent that records the event whether or not there is a log
newEventAlways(wl, desc) ==
    [wl EXCEPT !.events = Append(@, [id |-> wl.eventCounter, desc |-> desc,
                                     finished |-> FALSE]),
               !.eventCounter = @ + 1]

\* WorldLog.newEvent: id and append under the lock
newEvent(wl, desc) ==
    IF wl.enabled
    THEN [wl EXCEPT !.events = Append(@, [id |-> wl.eventCounter, desc |-> desc,
                                          finished |-> FALSE]),
                    !.eventCounter = @ + 1]
    ELSE wl

\* Event.finish: a no-op on nil
finishEvent(wl, e) ==
    IF e = NoEvent THEN wl ELSE [wl EXCEPT !.events[e].finished = TRUE]

\* a WorldLog.finish that does nothing
finishLogNever(wl) == wl

\* WorldLog.finish: a no-op on the dummy WorldLog
finishLog(wl) == IF wl.enabled THEN [wl EXCEPT !.finalized = @ + 1] ELSE wl

\* ----------------------------------------- WorldLog, goroutine by goroutine
\* the columns of the Gantt chart
timelineWidth == 80

\* the zero time.Time, for which IsZero() holds
ZeroTime == -1

\* the goroutines that share the WorldLog: 1 is the test goroutine, the
\* others run createFn
Callers == 1..MaxCallers

\* a lock that never makes a goroutine wait
LockAvailableAlways(e) == TRUE

\* el.rw.Lock() returns once no goroutine holds the lock
LockAvailable(e) == e.lock = 0

\* the bytes of the characters of an event file name
Bytes ==
    [ch \in {".", "0", "1", "2", "3", "4", "5", "6", "7", "8", "9", "_",
             "e", "g", "l", "n", "o", "t", "v"} |->
        CASE ch = "." -> 46
          [] ch = "_" -> 95
          [] ch = "e" -> 101
          [] ch = "g" -> 103
          [] ch = "l" -> 108
          [] ch = "n" -> 110
          [] ch = "o" -> 111
          [] ch = "t" -> 116
          [] ch = "v" -> 118
          [] OTHER -> 48 + (CHOOSE d \in 0..9 : Digits[d + 1] = ch)]

\* the %03d verb: at least three digits, padded with zeros
Pad3(n) ==
    LET d == Itoa(n)
    IN  IF Len(d) >= 3 THEN d ELSE [k \in 1..(3 - Len(d)) |-> "0"] \o d

\* fmt.Sprintf("event_%03d.log", event.id)
FileName(id) ==
    <<"e", "v", "e", "n", "t", "_">> \o Pad3(id) \o <<".", "l", "o", "g">>

RECURSIVE FirstDiff(_, _, _)
\* the first position from k on at which a and b differ, 0 when one is a
\* prefix of the other
FirstDiff(a, b, k) ==
    IF k > Len(a) \/ k > Len(b) THEN 0
    ELSE IF a[k] # b[k] THEN k
    ELSE FirstDiff(a, b, k + 1)

\* a < b for Go strings: byte by byte, a proper prefix first
StringLess(a, b) ==
    LET k == FirstDiff(a, b, 1)
    IN  IF k = 0 THEN Len(a) < Len(b) ELSE Bytes[a[k]] < Bytes[b[k]]

\* os.ReadDir: the entries of the directory sorted by file name
ReadDir(dir) == SortSeq(dir, LAMBDA x, y : StringLess(x.name, y.name))

\* a bar that may be empty
barLenFromZero(duration, totalDuration) ==
    LET n == (duration * timelineWidth) \div totalDuration
    IN  IF n > 0 THEN n ELSE 0

\* max(int((duration / totalDuration) * timelineWidth), 1); the times of the
\* model are whole seconds, for which the float64 quotient, scaled and
\* truncated, is the floor of the exact value
barLen(duration, totalDuration) ==
    LET n == (duration * timelineWidth) \div totalDuration
    IN  IF n > 1 THEN n ELSE 1

\* max(int((startOffset / totalDuration) * timelineWidth), 0)
startPos(startOffset, totalDuration) ==
    LET n == (startOffset * timelineWidth) \div totalDuration
    IN  IF n > 0 THEN n ELSE 0

\* printGantt: the finish time of a bar without the IsZero test
finishTimeOfEvent(e, event) == event.finishTime

\* printGantt: the finish time of a bar; an event that was never finished
\* (finishTime.IsZero()) takes el.finishTime
finishTimeOf(e, event) ==
    IF event.finishTime = ZeroTime THEN e.finishTime ELSE event.finishTime

\* one line of printGantt: the bar of an event, with the numbers it is
\* computed from
GanttLine(e, event) ==
    LET totalDuration == e.finishTime - e.startTime
        finishTime == finishTimeOf(e, event)
        startOffset == event.startTime - e.startTime
        duration == finishTime - event.startTime
    IN  [id |-> event.id, startOffset |-> startOffset, duration |-> duration,
         totalDuration |-> totalDuration,
         startPos |-> startPos(startOffset, totalDuration),
         barLen |-> barLen(duration, totalDuration)]

\* printGantt: one line per event, in the order of el.events
printGantt(e) == [k \in 1..Len(e.events) |-> GanttLine(e, e.events[k])]

\* the numbers of events a WorldLog has recorded when SpecFiles takes it up
PriorEvents == {0, 99, 999}

\* New's t.Log("Failed to create world log:", err)
LogFailureReport == <<"failed to create world log", <<>>>>

\* a goroutine that is not inside newEvent and holds no event
CallerInit == [pc |-> "idle", now |-> ZeroTime, event |-> NoEvent]

\* the WorldLog after NewWorldLog, or after n events have been recorded and
\* finished within the second in which it was made
LogInit(n) ==
    /\ el = [lock |-> 0,
             events |-> [k \in 1..n |-> [id |-> k - 1, startTime |-> 0,
                                         finishTime |-> 0]],
             eventCounter |-> n, startTime |-> 0, finishTime |-> ZeroTime,
             world |-> TRUE]
    /\ callers = [c \in Callers |-> CallerInit]
    /\ clock = 0
    /\ eventsDir = [k \in 1..n |-> [name |-> FileName(k - 1), id |-> k - 1]]
    /\ combinedLog = [written |-> FALSE, failed |-> FALSE, gantt |-> <<>>,
                      outputs |-> <<>>]

\* the &WorldLog{} New installs when NewWorldLog has returned an error: its
\* world is nil
LogInitDummy ==
    /\ el = [lock |-> 0, events |-> <<>>, eventCounter |-> 0, startTime |-> ZeroTime,
             finishTime |-> ZeroTime, world |-> FALSE]
    /\ callers = [c \in Callers |-> CallerInit]
    /\ clock = 0
    /\ eventsDir = <<>>
    /\ combinedLog = [written |-> FALSE, failed |-> FALSE, gantt |-> <<>>,
                      outputs |-> <<>>]

\* the newEvent calls begun so far
Started ==
    Len(el.events) + Cardinality({c \in Callers : callers[c].pc \in {"lock", "append"}})

\* newEvent: now := time.Now(), before the lock is taken
NewEventNow(c) ==
    /\ el.world
    /\ callers[c].pc = "idle"
    /\ el.finishTime = ZeroTime
    /\ \E n \in PriorEvents : n <= Len(el.events) /\ Started < n + MaxEvents
    /\ callers' = [callers EXCEPT ![c].pc = "lock", ![c].now = clock]
    /\ UNCHANGED <<el, clock, eventsDir, combinedLog>>
    /\ UNCHANGED progVars

\* newEvent: el.rw.Lock()
NewEventLock(c) ==
    /\ callers[c].pc = "lock"
    /\ LockAvailable(el)
    /\ el' = [el EXCEPT !.lock = c]
    /\ callers' = [callers EXCEPT ![c].pc = "append"]
    /\ UNCHANGED <<clock, eventsDir, combinedLog>>
    /\ UNCHANGED progVars

\* newEvent: the Event takes el.eventCounter as its id and is appended
NewEventAppend(c) ==
    /\ callers[c].pc = "append"
    /\ el' = [el EXCEPT !.events = Append(@, [id |-> el.eventCounter,
                                              startTime |-> callers[c].now,
                                              finishTime |-> ZeroTime])]
    /\ callers' = [callers EXCEPT ![c].pc = "unlock", ![c].event = Len(el.events) + 1]
    /\ UNCHANGED <<clock, eventsDir, combinedLog>>
    /\ UNCHANGED progVars

\* newEvent: el.eventCounter++ and el.rw.Unlock()
NewEventUnlock(c) ==
    /\ callers[c].pc = "unlock"
    /\ el' = [el EXCEPT !.eventCounter = @ + 1, !.lock = 0]
    /\ callers' = [callers EXCEPT ![c].pc = "create"]
    /\ UNCHANGED <<clock, eventsDir, combinedLog>>
    /\ UNCHANGED progVars

\* newEvent: os.Create of the event's file; nil is returned when it fails
NewEventCreate(c, ok) ==
    /\ callers[c].pc = "create"
    /\ LET id == el.events[callers[c].event].id
       IN  IF ok
           THEN /\ eventsDir' = Append(eventsDir, [name |-> FileName(id), id |-> id])
                /\ callers' = [callers EXCEPT ![c].pc = "hold"]
           ELSE /\ eventsDir' = eventsDir
                /\ callers' = [callers EXCEPT ![c].pc = "idle", ![c].event = NoEvent]
    /\ UNCHANGED <<el, clock, combinedLog>>
    /\ UNCHANGED progVars

\* Event.finish of the event a goroutine holds
EventFinish(c) ==
    /\ callers[c].pc = "hold"
    /\ el' = [el EXCEPT !.events[callers[c].event].finishTime = clock]
    /\ callers' = [callers EXCEPT ![c].pc = "idle", ![c].event = NoEvent]
    /\ UNCHANGED <<clock, eventsDir, combinedLog>>
    /\ UNCHANGED progVars

\* time passes
Tick ==
    /\ clock < MaxClock
    /\ clock' = clock + 1
    /\ UNCHANGED <<el, callers, eventsDir, combinedLog>>
    /\ UNCHANGED progVars

\* WorldLog.finish, called by Destroy on the test goroutine once every
\* createFn has closed its channel and so has returned from newEvent; the
\* test goroutine may have left an event unfinished: el.finishTime = time.Now().
\* A World lives longer than the unit of the clock: New makes the log
\* directories and a network between NewWorldLog and the first Destroy
WorldLogFinish ==
    /\ el.world
    /\ callers[1].pc \in {"idle", "hold"}
    /\ clock > el.startTime
    /\ \A c \in Callers : callers[c].pc \in {"idle", "hold"}
    /\ el.finishTime = ZeroTime
    /\ el' = [el EXCEPT !.finishTime = clock]
    /\ callers' = [callers EXCEPT ![1].pc = "finish", ![1].event = NoEvent]
    /\ UNCHANGED <<clock, eventsDir, combinedLog>>
    /\ UNCHANGED progVars

\* WorldLog.finish: printGantt into the combined log, then the event files
\* in the order of os.ReadDir; when os.ReadDir fails finish returns the
\* error, which Destroy does not look at
WorldLogWrite(ok) ==
    /\ callers[1].pc = "finish"
    /\ combinedLog' = [written |-> ok, failed |-> ~ok, gantt |-> printGantt(el),
                       outputs |-> IF ok THEN ReadDir(eventsDir) ELSE <<>>]
    /\ callers' = [callers EXCEPT ![1].pc = "finished"]
    /\ UNCHANGED <<el, clock, eventsDir>>
    /\ UNCHANGED progVars

\* the WorldLog under newEvent calls of several goroutines
NextLog ==
    \/ \E c \in Callers : NewEventNow(c)
    \/ \E c \in Callers : NewEventLock(c)
    \/ \E c \in Callers : NewEventAppend(c)
    \/ \E c \in Callers : NewEventUnlock(c)
    \/ \E c \in Callers, ok \in BOOLEAN : NewEventCreate(c, ok)
    \/ \E c \in Callers : EventFinish(c)
    \/ Tick
    \/ WorldLogFinish
    \/ \E ok \in BOOLEAN : WorldLogWrite(ok)

\* the WorldLog of a long test, used by the test goroutine alone
NextFiles ==
    \/ NewEventNow(1)
    \/ NewEventLock(1)
    \/ NewEventAppend(1)
    \/ NewEventUnlock(1)
    \/ \E ok \in BOOLEAN : NewEventCreate(1, ok)
    \/ EventFinish(1)
    \/ Tick
    \/ WorldLogFinish
    \/ \E ok \in BOOLEAN : WorldLogWrite(ok)

\* ----------------------------------------------------------- createFn task
\* createFn closing the channel before it has written pc.err
TaskProgramCloseFirst ==
    <<"newEvent", "GenericContainer", "close", "writeErr", "finish">>

\* createFn trying the creation a second time
TaskProgramRetry ==
    <<"newEvent", "GenericContainer", "writeErr", "close", "GenericContainer", "writeErr",
      "finish">>

\* the statements of createFn, in program order
TaskProgram == <<"newEvent", "GenericContainer", "writeErr", "close", "finish">>

TaskDone(t) == t.pc > Len(TaskProgram)

\* the goroutine that `go createFn()` starts; it holds the containerRequest
\* made for the replica: its Name and its NetworkAliases
Spawn(kind, replicaName, aliases) ==
    [pc |-> 1, kind |-> kind, name |-> replicaName, aliases |-> aliases,
     event |-> NoEvent, res |-> "none"]

\* &pendingContainer{name: replicaName, ready: make(chan struct{})}
NewPending(replicaName) ==
    [name |-> replicaName, ready |-> FALSE, container |-> NilContainer, err |-> FALSE]

NewHistory == [creates |-> 0, closes |-> 0, logs |-> 0, terminates |-> 0, reads |-> {}]

\* createFn() called inline: the replica is created before NewContainer returns
ScheduleInline(kind, replicaName, aliases) ==
    [slot |-> [name |-> replicaName, ready |-> TRUE, container |-> 1, err |-> FALSE],
     task |-> [pc |-> 6, kind |-> kind, name |-> replicaName, aliases |-> aliases,
               event |-> 0, res |-> "ok"],
     hist |-> [creates |-> 1, closes |-> 1, logs |-> 0, terminates |-> 0, reads |-> {}]]

\* what NewContainer makes for one replica: the pendingContainer and the
\* goroutine started with `go createFn()`, which has not run yet
Schedule(kind, replicaName, aliases) ==
    [slot |-> NewPending(replicaName), task |-> Spawn(kind, replicaName, aliases),
     hist |-> NewHistory]

\* a reader that does not wait for the channel
ChanReceiveNoWait(slot) == TRUE

\* <-pc.ready: a receive from the channel returns once it is closed
ChanReceive(slot) == slot.ready

\* the pendingContainer createFn s writes: the pc of its own iteration of
\* NewContainer's loop, which the closure captures
pcOfFirst(s) == 1

pcOf(s) == s

\* one statement of createFn for pendingContainer s; res is what
\* GenericContainer returns
TaskStep(s, res) ==
    LET t == tasks[s]
        stmt == TaskProgram[t.pc]
    IN  /\ s \in 1..Len(tasks)
        /\ ~TaskDone(t)
        /\ stmt = "GenericContainer" \/ res = "ok"
        /\ tasks' = [tasks EXCEPT ![s].pc = @ + 1,
                                  ![s].event = IF stmt = "newEvent"
                                               THEN NewEventPtr(worldLog) ELSE @,
                                  ![s].res = IF stmt = "GenericContainer" THEN res ELSE @]
        /\ worldLog' = CASE stmt = "newEvent" ->
                              newEvent(worldLog, Desc("World: add", t.kind, t.name))
                         [] stmt = "finish" -> finishEvent(worldLog, t.event)
                         [] OTHER -> worldLog
        /\ slots' = CASE stmt = "GenericContainer" ->
                           [slots EXCEPT ![pcOf(s)].container =
                                IF res = "ok" THEN s ELSE NilContainer]
                      [] stmt = "writeErr" -> [slots EXCEPT ![pcOf(s)].err = (t.res = "fail")]
                      [] stmt = "close" -> [slots EXCEPT ![pcOf(s)].ready = TRUE]
                      [] OTHER -> slots
        /\ history' = CASE stmt = "GenericContainer" ->
                             [history EXCEPT ![s].creates = @ + 1]
                        [] stmt = "close" -> [history EXCEPT ![s].closes = @ + 1]
                        [] OTHER -> history
        /\ UNCHANGED <<main, handles, containers, containerKinds, callbacks, fatals, reported>>
        /\ UNCHANGED logVars

\* ------------------------------------------------------------- World.New
MainInit ==
    [pc |-> "new", ctx |-> "test", dctx |-> "defer", op |-> "none", h |-> 0,
     g |-> <<>>, i |-> 0, ev |-> NoEvent, awaitEv |-> NoEvent, createEv |-> NoEvent,
     destroyEv |-> NoEvent, expect |-> 0, got |-> <<>>, remaining |-> {}, nOps |-> 0,
     returned |-> 0, awaited |-> FALSE, requested |-> 0, answer |-> <<>>,
     nilDestroy |-> FALSE]

WorldInit ==
    /\ main = MainInit
    /\ handles = <<>>
    /\ containers = <<>>
    /\ containerKinds = <<>>
    /\ slots = <<>>
    /\ tasks = <<>>
    /\ worldLog \in {[enabled |-> en, events |-> <<>>, eventCounter |-> 0, finalized |-> 0]
                        : en \in BOOLEAN}
    /\ history = <<>>
    /\ callbacks = <<>>
    /\ fatals = <<>>

Init == WorldInit /\ reported = <<>> /\ LogInit(0)

\* a t.Fatalf call: the format and the arguments it names
Fatal(f, group, member, cmd) == [fmt |-> f, group |-> group, member |-> member, cmd |-> cmd]

\* the first statement of Destroy: the "World: destroy" event; the loop
\* then ranges over w.containers
EnterDestroy(m, wl, dctx) ==
    [m EXCEPT !.pc = "destroy", !.dctx = dctx, !.destroyEv = NewEventPtr(wl),
              !.remaining = DOMAIN containers, !.ev = NoEvent, !.awaitEv = NoEvent,
              !.returned = 0, !.awaited = FALSE, !.requested = 0, !.answer = <<>>]

\* New: the "World: Create" event, then network.New succeeds or fails
New(netOK) ==
    /\ main.pc = "new"
    /\ LET wl1 == newEvent(worldLog, Desc("World: Create", <<>>, <<>>))
           ev == NewEventPtr(worldLog)
       IN  IF netOK
           THEN /\ worldLog' = finishEvent(wl1, ev)
                /\ main' = [main EXCEPT !.pc = "idle", !.createEv = ev,
                                         !.nilDestroy = FALSE]
           ELSE /\ worldLog' = newEvent(wl1, Desc("World: destroy", <<>>, <<>>))
                /\ main' = EnterDestroy([main EXCEPT !.createEv = ev,
                                                      !.nilDestroy = FALSE], wl1, "new")
    /\ UNCHANGED <<handles, containers, containerKinds, slots, tasks, history,
                   callbacks, fatals>>
    /\ reported' = <<>>
    /\ UNCHANGED logVars

\* ---------------------------------------------------- World.NewContainer
\* a registry keyed by kind instead of by group name
RegistryKeyByKind(name, kind) == kind

\* the key under which NewContainer registers the group
RegistryKey(name, kind) == name

\* a registered copy with a pending array of its own, as it is at the time
\* of registration: every element nil
RegisteredSnapshot(wc) == [wc EXCEPT !.pending = [k \in DOMAIN @ |-> 0]]

\* w.containers[name] = wc: a copy of the struct, whose pending is a slice of
\* the same array as the handle's, so that the pendingContainers the loop
\* stores afterwards are seen through both
Registered(wc) == wc

\* NewContainer: the name, the registration, one pendingContainer and one
\* goroutine per replica; spec.Awaited is not read
NewContainer(image, replicas, awaited, onDestroy) ==
    /\ main.pc = "idle"
    /\ LET kind == KindOf(image)
           seq == MapGet(containerKinds, kind) + 1
           name == GroupName(kind, seq)
           n == ReplicaCount(replicas)
           base == Len(slots)
           pending == [i \in 1..n |-> base + i]
           wc == [Name |-> name, isReady |-> FALSE, pending |-> pending,
                  onDestroy |-> onDestroy]
           sched == [i \in 1..n |-> Schedule(kind, ReplicaName(name, n, i),
                                              Aliases(name, n, i))]
       IN  /\ containerKinds' = MapPut(containerKinds, kind, seq)
           /\ containers' = MapPut(containers, RegistryKey(name, kind), Registered(wc))
           /\ callbacks' = MapPut(callbacks, RegistryKey(name, kind), 0)
           /\ slots' = slots \o [i \in 1..n |-> sched[i].slot]
           /\ tasks' = tasks \o [i \in 1..n |-> sched[i].task]
           /\ history' = history \o [i \in 1..n |-> sched[i].hist]
           /\ handles' = Append(handles, wc)
           /\ main' = [main EXCEPT !.returned = Len(handles) + 1, !.awaited = awaited,
                                    !.requested = replicas, !.answer = <<>>]
    /\ UNCHANGED <<worldLog, fatals>>
    /\ reported' = <<>>
    /\ UNCHANGED logVars

\* a NewContainer call of a test of at most MaxGroups groups and MaxSlots
\* replicas
BoundedNewContainer(image, replicas, awaited, onDestroy) ==
    /\ Len(handles) < MaxGroups
    /\ Len(slots) + ReplicaCount(replicas) <= MaxSlots
    /\ NewContainer(image, replicas, awaited, onDestroy)

\* ------------------------------------------------------ group operations
\* the WorldContainer an operation runs on: the test's handle, or the copy
\* Destroy passes to the callback
Target(m) == IF m.ctx = "test" THEN handles[m.h] ELSE containers[m.g]

\* the format of the event a member-level operation records
OpEventFmt(op) == CASE op = "Exec" -> "exec" [] op = "Wait" -> "wait" [] OTHER -> "log file"

\* t.Fatalf: the test goroutine exits, running the deferred w.Destroy()
\* unless Destroy is already running
AfterFatal(m, wl) ==
    IF m.ctx = "test"
    THEN EnterDestroy([m EXCEPT !.op = "none"], wl, "defer")
    ELSE [m EXCEPT !.pc = "done", !.op = "none", !.answer = <<>>]

\* a failure that finishes the event of the member it is about
FatalLogFinishing(m, wl) ==
    IF m.ctx = "test"
    THEN newEvent(finishEvent(wl, m.ev), Desc("World: destroy", <<>>, <<>>))
    ELSE finishEvent(wl, m.ev)

\* what a t.Fatalf leaves in the log: the events held stay as they are, and
\* in the test body the deferred Destroy records its event
FatalLog(m, wl) ==
    IF m.ctx = "test"
    THEN newEvent(wl, Desc("World: destroy", <<>>, <<>>))
    ELSE wl

\* a group operation returns to the test body, or to Destroy's loop
AfterReturn(m) ==
    IF m.ctx = "test"
    THEN [m EXCEPT !.pc = "idle", !.op = "none", !.h = 0, !.g = <<>>, !.i = 0,
                   !.ev = NoEvent, !.awaitEv = NoEvent, !.got = <<>>, !.expect = 0,
                   !.nOps = @ + 1, !.answer = <<>>]
    ELSE [m EXCEPT !.pc = "destroy", !.ctx = "test", !.op = "none", !.g = <<>>, !.i = 0,
                   !.ev = NoEvent, !.awaitEv = NoEvent, !.got = <<>>, !.answer = <<>>]

\* the head of mustReady: the await event unless the handle is ready
EnterOp(m, wl, ctx, op, h, g, isReady, expect) ==
    [m EXCEPT !.pc = "waitReady", !.ctx = ctx, !.op = op, !.h = h, !.g = g, !.i = 1,
              !.awaitEv = IF isReady THEN NoEvent ELSE NewEventPtr(wl),
              !.ev = NoEvent, !.got = <<>>, !.expect = expect,
              !.returned = 0, !.awaited = FALSE, !.requested = 0, !.answer = <<>>]

EnterOpLog(wl, name, isReady) ==
    IF isReady THEN wl ELSE newEvent(wl, Desc("await", <<>>, name))

\* the test calls Await, Exec, Wait or LogFile on one of its handles
CallOp(h, op, expect) ==
    /\ main.pc = "idle"
    /\ main.nOps < MaxOps
    /\ h \in 1..Len(handles)
    /\ op = "Exec" \/ expect = 0
    /\ main' = EnterOp(main, worldLog, "test", op, h, handles[h].Name,
                       handles[h].isReady, expect)
    /\ worldLog' = EnterOpLog(worldLog, handles[h].Name, handles[h].isReady)
    /\ UNCHANGED <<handles, containers, containerKinds, slots, tasks, history,
                   callbacks, fatals>>
    /\ reported' = <<>>
    /\ UNCHANGED logVars

\* a member-level event labelled with the name of the group
MemberNameOfGroup(wc, i) == wc.Name

\* name := wc.pending[i].name
MemberName(wc, i) == slots[wc.pending[i]].name

\* a report that names the group's first member whichever member failed
FailedMemberFirst(pending, i) == slots[pending[1]].name

\* the member waitReady reports when it finds pc.err set
FailedMember(pending, i) == slots[pending[i]].name

\* a waitReady that never looks at pc.err
CreationFailedIgnored(slot) == FALSE

\* pc.err != nil
CreationFailed(slot) == slot.err

\* a waitReady that waits for the first member only
WaitCountFirstOnly(wc) == 1

\* the members waitReady's loop ranges over
WaitCount(wc) == Len(wc.pending)

\* a waitReady that returns the containers last member first
CollectReversed(got, container) == <<container>> \o got

\* containers[i] = pc.container
Collect(got, container) == Append(got, container)

\* one iteration of waitReady's loop, and what follows its last one
WaitReady ==
    /\ main.pc = "waitReady"
    /\ LET wc == Target(main)
           s == wc.pending[main.i]
           n == WaitCount(wc)
           slot == slots[s]
           got == Collect(main.got, slot.container)
           wlA == finishEvent(worldLog, main.awaitEv)
       IN  /\ ChanReceive(slot)
           /\ history' = [history EXCEPT ![s].reads = @ \cup {<<slot.container, slot.err>>}]
           /\ IF CreationFailed(slot)
              THEN /\ fatals' = Append(fatals, Fatal("Container %s failed to create: %v",
                                         wc.Name, FailedMember(wc.pending, main.i), FALSE))
                   /\ main' = AfterFatal(main, wlA)
                   /\ worldLog' = FatalLog(main, wlA)
                   /\ UNCHANGED handles
              ELSE IF main.i < n
              THEN /\ main' = [main EXCEPT !.i = @ + 1, !.got = got]
                   /\ UNCHANGED <<worldLog, fatals, handles>>
              ELSE /\ handles' = IF main.ctx = "test"
                                 THEN [handles EXCEPT ![main.h].isReady = TRUE]
                                 ELSE handles
                   /\ UNCHANGED fatals
                   /\ IF main.op = "Await"
                      THEN /\ main' = AfterReturn(main)
                           /\ worldLog' = wlA
                      ELSE /\ main' = [main EXCEPT !.pc = "incall", !.i = 1, !.got = got,
                                              !.awaitEv = NoEvent,
                                              !.ev = NewEventPtr(wlA)]
                           /\ worldLog' = newEvent(wlA, Desc(OpEventFmt(main.op), <<>>,
                                                             MemberName(wc, 1)))
    /\ UNCHANGED <<containers, containerKinds, slots, tasks, callbacks>>
    /\ reported' = <<>>
    /\ UNCHANGED logVars

\* what the provider can answer to a member-level call; "ioerr" is a file
\* that CopyFileFromContainer opens and that fails while it is read
Outcomes(op) ==
    CASE op = "Exec" -> {"err", "exit0", "exit1"}
      [] op = "Wait" -> {"ok", "err"}
      [] OTHER -> {"ok", "err", "ioerr"}

ExitCode(out) == IF out = "exit1" THEN 1 ELSE 0

\* an Exec that takes every non-zero exit code for a failure
ExitMismatchNonZero(out, expect) == ExitCode(out) # 0

\* exitCode != expectCode
ExitMismatch(out, expect) == ExitCode(out) # expect

\* the t.Fatalf a member-level answer leads to, if any; LogFile reads the
\* file only to copy it into the event's log
OpFatal(op, out, expect, name, ev) ==
    CASE op = "Exec" /\ out = "err" ->
            <<Fatal("Failed to exec in container %s: %v", <<>>, name, FALSE)>>
      [] op = "Exec" /\ ExitMismatch(out, expect) ->
            <<Fatal("Command %v exited with code %d (expected %d) in container %s",
                    <<>>, name, TRUE)>>
      [] op = "Wait" /\ out = "err" ->
            <<Fatal("Wait failed for container %s: %v", <<>>, name, FALSE)>>
      [] op = "LogFile" /\ out = "err" ->
            <<Fatal("Failed to copy file %s from container %s: %v", <<>>, name, FALSE)>>
      [] op = "LogFile" /\ out = "ioerr" /\ ev # NoEvent ->
            <<Fatal("Failed to copy file content for %s: %v", <<>>, <<>>, FALSE)>>
      [] OTHER -> <<>>

\* the provider answers the member-level call of member main.i
MemberCall(out) ==
    /\ main.pc = "incall"
    /\ out \in Outcomes(main.op)
    /\ LET wc == Target(main)
           n == Len(wc.pending)
           name == slots[wc.pending[main.i]].name
           f == OpFatal(main.op, out, main.expect, name, main.ev)
           wlF == finishEvent(worldLog, main.ev)
           ans == <<main.op, out, main.expect, name>>
       IN  IF f # <<>>
           THEN /\ fatals' = fatals \o f
                /\ main' = [AfterFatal(main, worldLog) EXCEPT !.answer = ans]
                /\ worldLog' = FatalLog(main, worldLog)
           ELSE /\ UNCHANGED fatals
                /\ IF main.i < n
                   THEN /\ main' = [main EXCEPT !.i = @ + 1, !.ev = NewEventPtr(wlF),
                                                !.answer = ans]
                        /\ worldLog' = newEvent(wlF, Desc(OpEventFmt(main.op), <<>>,
                                                    MemberName(wc, main.i + 1)))
                   ELSE /\ main' = [AfterReturn(main) EXCEPT !.answer = ans]
                        /\ worldLog' = wlF
    /\ UNCHANGED <<handles, containers, containerKinds, slots, tasks, history,
                   callbacks>>
    /\ reported' = <<>>
    /\ UNCHANGED logVars

\* ---------------------------------------------------------- World.Destroy
\* the test body ends and the deferred w.Destroy() runs
Destroy ==
    /\ main.pc = "idle"
    /\ main' = EnterDestroy(main, worldLog, "defer")
    /\ worldLog' = newEvent(worldLog, Desc("World: destroy", <<>>, <<>>))
    /\ UNCHANGED <<handles, containers, containerKinds, slots, tasks, history,
                   callbacks, fatals>>
    /\ reported' = <<>>
    /\ UNCHANGED logVars

\* a nil *World
NilWorld == 0

\* the *World the test holds in its variable w: nil until New has returned,
\* which it does not when the network could not be made
WorldPtr(m) == IF m.pc = "new" \/ m.dctx = "new" THEN NilWorld ELSE 1

\* a Destroy without the nil check
IsNilNever(w) == FALSE

\* w == nil
IsNil(w) == w = NilWorld

\* the test calls Destroy on the nil *World it holds before New
DestroyNil ==
    /\ main.pc = "new"
    /\ ~main.nilDestroy
    /\ IF IsNil(WorldPtr(main))
       THEN /\ main' = [main EXCEPT !.nilDestroy = TRUE]
            /\ UNCHANGED worldLog
       ELSE /\ main' = EnterDestroy([main EXCEPT !.nilDestroy = TRUE], worldLog, "defer")
            /\ worldLog' = newEvent(worldLog, Desc("World: destroy", <<>>, <<>>))
    /\ UNCHANGED <<handles, containers, containerKinds, slots, tasks, history,
                   callbacks, fatals>>
    /\ reported' = <<>>
    /\ UNCHANGED logVars

\* the range loop takes the next group, in the map's order
DestroyGroup(g) ==
    /\ main.pc = "destroy"
    /\ g \in main.remaining
    /\ main' = [main EXCEPT !.pc = "dwait", !.g = g, !.i = 1, !.remaining = @ \ {g},
                             !.answer = <<>>]
    /\ UNCHANGED <<handles, containers, containerKinds, slots, tasks, worldLog,
                   history, callbacks, fatals>>
    /\ reported' = <<>>
    /\ UNCHANGED logVars

\* Destroy is done with member main.i of group main.g: the next member, or
\* the group's onDestroy callback, or the next group
AfterMember(m, wl) ==
    LET c == containers[m.g]
    IN  IF m.i < Len(c.pending)
        THEN [main |-> [m EXCEPT !.pc = "dwait", !.i = @ + 1, !.ev = NoEvent,
                                 !.answer = <<>>],
              log |-> wl, called |-> 0]
        ELSE IF c.onDestroy = "nil"
        THEN [main |-> [m EXCEPT !.pc = "destroy", !.g = <<>>, !.i = 0, !.ev = NoEvent,
                                 !.answer = <<>>],
              log |-> wl, called |-> 0]
        ELSE [main |-> EnterOp(m, wl, "callback", "LogFile", 0, m.g, c.isReady, 0),
              log |-> EnterOpLog(wl, c.Name, c.isReady), called |-> 1]

\* a Destroy that does not receive from the member's channel
DestroyReceiveNoWait(slot) == TRUE

\* Destroy's own <-pc.ready
DestroyReceive(slot) == ChanReceive(slot)

\* a Destroy that skips no member
DestroySkipsNever(slot) == FALSE

\* Destroy's own pc.err != nil, followed by continue
DestroySkips(slot) == slot.err

\* Destroy receives from the member's channel, then skips a failed member
\* or asks for the logs of a created one
DestroyMember ==
    /\ main.pc = "dwait"
    /\ LET s == containers[main.g].pending[main.i]
           slot == slots[s]
           nxt == AfterMember(main, worldLog)
       IN  /\ DestroyReceive(slot)
           /\ IF DestroySkips(slot)
              THEN /\ reported' = <<"failed to create", slot.name>>
                   /\ main' = nxt.main
                   /\ worldLog' = nxt.log
                   /\ callbacks' = [callbacks EXCEPT ![main.g] = @ + nxt.called]
                   /\ history' = [history EXCEPT
                                    ![s].reads = @ \cup {<<slot.container, slot.err>>}]
              ELSE /\ main' = [main EXCEPT !.pc = "dlogs", !.ev = NewEventPtr(worldLog)]
                   /\ worldLog' = newEvent(worldLog, Desc("logs", <<>>, slot.name))
                   /\ history' = [history EXCEPT
                                    ![s].reads = @ \cup {<<slot.container, slot.err>>},
                                    ![s].logs = @ + 1]
                   /\ reported' = <<>>
                   /\ UNCHANGED callbacks
    /\ UNCHANGED <<handles, containers, containerKinds, slots, tasks, fatals>>
    /\ UNCHANGED logVars

\* container.Logs answers; then Terminate is requested
DestroyLogs(ok) ==
    /\ main.pc = "dlogs"
    /\ LET s == containers[main.g].pending[main.i]
       IN  /\ reported' = IF ok THEN <<>>
                          ELSE <<"failed to collect logs", slots[s].name>>
           /\ worldLog' = finishEvent(worldLog, main.ev)
           /\ history' = [history EXCEPT ![s].terminates = @ + 1]
           /\ main' = [main EXCEPT !.pc = "dterm", !.ev = NoEvent]
    /\ UNCHANGED <<handles, containers, containerKinds, slots, tasks, callbacks, fatals>>
    /\ UNCHANGED logVars

\* Terminate answers
DestroyTerminate(ok) ==
    /\ main.pc = "dterm"
    /\ LET s == containers[main.g].pending[main.i]
           nxt == AfterMember(main, worldLog)
       IN  /\ reported' = IF ok THEN <<>>
                          ELSE <<"failed to terminate", slots[s].name>>
           /\ main' = nxt.main
           /\ worldLog' = nxt.log
           /\ callbacks' = [callbacks EXCEPT ![main.g] = @ + nxt.called]
    /\ UNCHANGED <<handles, containers, containerKinds, slots, tasks, history, fatals>>
    /\ UNCHANGED logVars

\* the loop is over: the destroy event is finished and the log finalized;
\* when New called Destroy, New then fails the test
DestroyEnd ==
    /\ main.pc = "destroy"
    /\ main.remaining = {}
    /\ LET wl == finishLog(finishEvent(worldLog, main.destroyEv))
       IN  IF main.dctx = "new"
           THEN /\ fatals' = Append(fatals, Fatal("Failed to create network: %v",
                                                  <<>>, <<>>, FALSE))
                /\ worldLog' = finishEvent(wl, main.createEv)
           ELSE /\ worldLog' = wl
                /\ UNCHANGED fatals
    /\ main' = [main EXCEPT !.pc = "done", !.answer = <<>>]
    /\ UNCHANGED <<handles, containers, containerKinds, slots, tasks, history,
                   callbacks>>
    /\ reported' = <<>>
    /\ UNCHANGED logVars

\* ------------------------------------------------------------ specification
Next ==
    \/ \E ok \in BOOLEAN : New(ok)
    \/ \E image \in Images, r \in 0..MaxReplicas, aw \in BOOLEAN, cb \in Callbacks :
          BoundedNewContainer(image, r, aw, cb)
    \/ \E s \in 1..Len(tasks), res \in {"ok", "fail"} :
          TaskStep(s, res)
    \/ \E h \in 1..Len(handles), op \in Ops, expect \in {0, 1} :
          CallOp(h, op, expect)
    \/ WaitReady
    \/ \E out \in {"ok", "err", "ioerr", "exit0", "exit1"} :
          MemberCall(out)
    \/ Destroy
    \/ DestroyNil
    \/ \E g \in DOMAIN containers : DestroyGroup(g)
    \/ DestroyMember
    \/ \E ok \in BOOLEAN : DestroyLogs(ok)
    \/ \E ok \in BOOLEAN : DestroyTerminate(ok)
    \/ DestroyEnd

Spec == Init /\ [][Next]_vars

\* ------------------------------------------------- naming specification
\* The tests whose groups differ in kind and in replica count, up to
\* MaxNamedSlots replicas in all: they call New, NewContainer and Wait on one
\* group, with the log disabled and no callback.

\* ContainerSpec.Image: "r/a:1" and "a-1", an image without path or tag
\* whose name ends in a number
NamedImages == { <<"r", "/", "a", ":", "1">>, <<"a", "-", "1">> }

InitNaming == Init /\ ~worldLog.enabled

NamedNewContainer(image, replicas) ==
    /\ Len(handles) < MaxGroups
    /\ Len(slots) + ReplicaCount(replicas) <= MaxNamedSlots
    /\ NewContainer(image, replicas, FALSE, "nil")

NextNaming ==
    \/ \E ok \in BOOLEAN : New(ok)
    \/ \E image \in NamedImages, r \in (-1)..MaxReplicas :
          NamedNewContainer(image, r)
    \/ \E s \in 1..Len(tasks), res \in {"ok", "fail"} :
          TaskStep(s, res)
    \/ \E h \in 1..Len(handles) : CallOp(h, "Wait", 0)
    \/ WaitReady

SpecNaming == InitNaming /\ [][NextNaming]_vars

\* ------------------------------------------------ timeline specifications
\* a World with a log path, whose WorldLog several goroutines use
InitLog ==
    /\ WorldInit
    /\ \/ worldLog.enabled /\ reported = <<>> /\ LogInit(0)
       \/ ~worldLog.enabled /\ reported = LogFailureReport /\ LogInitDummy

SpecLog == InitLog /\ [][NextLog]_vars

\* a World with a log path, taken up after a number of events
InitFiles ==
    /\ WorldInit
    /\ worldLog.enabled
    /\ reported = <<>>
    /\ \E n \in PriorEvents : LogInit(n)

SpecFiles == InitFiles /\ [][NextFiles]_vars

\* ------------------------------------------------------------------ claims
SlotIds == 1..Len(slots)

\* what GenericContainer returned for pendingContainer s
Result(s) == <<IF tasks[s].res = "ok" THEN s ELSE NilContainer, tasks[s].res = "fail">>

Resolved(s) == slots[s].ready

CreateFatal == "Container %s failed to create: %v"
ExecErrFatal == "Failed to exec in container %s: %v"
ExecCodeFatal == "Command %v exited with code %d (expected %d) in container %s"

\* C1: every group NewContainer has returned is registered under its own
\* name, with the handle's pendingContainers, whether or not any of them is
\* resolved; and the registry holds exactly one group per NewContainer call.
C1_Registered ==
    /\ \A h \in 1..Len(handles) :
          /\ handles[h].Name \in DOMAIN containers
          /\ containers[handles[h].Name].Name = handles[h].Name
          /\ containers[handles[h].Name].pending = handles[h].pending
    /\ Cardinality(DOMAIN containers) = Len(handles)

\* the second NewContainer call has just returned and no replica of either
\* group is resolved
C1_Witness ==
    /\ main.returned = 2
    /\ Len(handles) = 2
    /\ \A s \in SlotIds : ~Resolved(s)

\* C2 (as claimed): when NewContainer returns from a call with
\* spec.Awaited = true, every pendingContainer of the group is resolved.
C2_AwaitedResolved ==
    (main.returned # 0 /\ main.awaited) =>
        \A k \in DOMAIN handles[main.returned].pending :
            Resolved(handles[main.returned].pending[k])

\* C3: a pendingContainer whose channel is closed holds the whole result
\* of GenericContainer, both fields; and every read a reader has made was
\* made after the close and saw that result.
C3_ReadAfterClose ==
    \A s \in SlotIds :
        /\ Resolved(s) => /\ tasks[s].res # "none"
                          /\ <<slots[s].container, slots[s].err>> = Result(s)
        /\ history[s].reads # {} => Resolved(s)
        /\ history[s].reads \subseteq {Result(s)}

\* a reader has read a failed creation, while another createFn has written
\* the container but neither the error nor the close
C3_Witness ==
    /\ \E s \in SlotIds : history[s].reads = {<<NilContainer, TRUE>>}
    /\ \E s \in SlotIds : /\ ~TaskDone(tasks[s])
                          /\ TaskProgram[tasks[s].pc] = "writeErr"
                          /\ tasks[s].res = "fail"

\* C4: every step leaves a resolved pendingContainer as it is, and no
\* replica is ever created twice or has its channel closed twice; a
\* createFn that has finished has created once and closed once.
C4_Step ==
    \A s \in SlotIds :
        /\ Resolved(s) => slots'[s] = slots[s]
        /\ history'[s].creates <= 1
        /\ history'[s].closes <= 1
        /\ TaskDone(tasks'[s]) => history'[s].creates = 1 /\ history'[s].closes = 1
        /\ Resolved(s) => history'[s].creates = 1 /\ history'[s].closes = 1

C4_ProvisionedOnce == [][C4_Step]_vars

\* both createFn of a World have finished, one of them with a failure
C4_Witness ==
    /\ Len(tasks) = 2
    /\ \A s \in SlotIds : TaskDone(tasks[s]) /\ history[s].creates = 1
    /\ \E s \in SlotIds : slots[s].err

\* C5: all reads of one pendingContainer, by group operations and by
\* Destroy, saw the same container and error, the ones it holds now; and
\* however often it was read, its replica was created at most once.
C5_Idempotent ==
    \A s \in SlotIds :
        /\ Cardinality(history[s].reads) <= 1
        /\ history[s].reads \subseteq {<<slots[s].container, slots[s].err>>}
        /\ history[s].reads # {} => ChanReceive(slots[s])
        /\ history[s].creates <= 1

\* Destroy has resolved a member that a group operation of the test had
\* resolved before
C5_Witness ==
    /\ main.pc = "dlogs"
    /\ \E h \in 1..Len(handles) : handles[h].isReady /\ handles[h].Name = main.g
    /\ history[containers[main.g].pending[main.i]].reads # {}

\* C6: a NewContainer step resolves nothing and runs no createFn: when it
\* returns, the goroutines of the new group have not run and the other
\* pendingContainers and goroutines are as they were.
C6_Step ==
    Len(handles') > Len(handles) =>
        /\ \A s \in (Len(slots) + 1)..Len(slots') :
              ~slots'[s].ready /\ tasks'[s].pc = 1 /\ history'[s].creates = 0
        /\ \A s \in SlotIds : slots'[s] = slots[s] /\ tasks'[s] = tasks[s]
        /\ main'.pc = "idle"

C6_NeverWaits == [][C6_Step]_vars

\* two groups, and the GenericContainer call of every replica is in flight
C6_Witness ==
    /\ Len(handles) = 2
    /\ main.returned = 2
    /\ \A s \in SlotIds : /\ ~TaskDone(tasks[s])
                          /\ TaskProgram[tasks[s].pc] = "GenericContainer"
                          /\ ~Resolved(s)

\* C7: while a member-level call of Exec, Wait or LogFile is in flight,
\* every pendingContainer of the group is resolved.
C7_ResolvedBeforeCall ==
    main.pc = "incall" =>
        \A k \in DOMAIN Target(main).pending : Resolved(Target(main).pending[k])

\* the Exec call of the first of two members is in flight
C7_Witness ==
    /\ main.pc = "incall"
    /\ main.op = "Exec"
    /\ main.ctx = "test"
    /\ main.i = 1
    /\ Len(Target(main).pending) = 2

\* C8 (as claimed): once a member has resolved with failure, a group
\* operation in waitReady is not blocked on any other member.
C8_NeverBlocked ==
    (/\ main.pc = "waitReady"
     /\ \E k \in DOMAIN Target(main).pending :
            Resolved(Target(main).pending[k]) /\ slots[Target(main).pending[k]].err)
    => ChanReceive(slots[Target(main).pending[main.i]])

\* C8 (amended): waitReady never goes past a failed member, so it never
\* waits for a member after one; the members before the one it is at are
\* resolved without failure, and the failure it reports is the first in
\* member order.
C8_MemberOrder ==
    /\ main.pc = "waitReady" =>
          \A j \in 1..(main.i - 1) :
              /\ Resolved(Target(main).pending[j])
              /\ ~slots[Target(main).pending[j]].err
    /\ \A f \in 1..Len(fatals) :
          fatals[f].fmt = CreateFatal =>
              \E k \in DOMAIN containers[fatals[f].group].pending :
                  /\ slots[containers[fatals[f].group].pending[k]].name = fatals[f].member
                  /\ \A j \in 1..(k - 1) :
                        ~slots[containers[fatals[f].group].pending[j]].err

\* the operation has failed on the first member while the second member
\* is still being created
C8_Witness ==
    /\ Len(fatals) = 1
    /\ fatals[1].fmt = CreateFatal
    /\ Len(containers[fatals[1].group].pending) = 2
    /\ fatals[1].member = slots[containers[fatals[1].group].pending[1]].name
    /\ ~Resolved(containers[fatals[1].group].pending[2])

\* C9: NewContainer returns without a fatal failure; no group operation
\* gets past mustReady on a group with a failed member; and each fatal
\* creation failure names the group and a member of it that failed.
C9_CreationFailureSurfaces ==
    /\ main.returned # 0 => fatals = <<>>
    /\ main.pc = "incall" =>
          \A k \in DOMAIN Target(main).pending : ~slots[Target(main).pending[k]].err
    /\ \A h \in 1..Len(handles) :
          handles[h].isReady =>
              \A k \in DOMAIN handles[h].pending : ~slots[handles[h].pending[k]].err
    /\ \A f \in 1..Len(fatals) :
          fatals[f].fmt = CreateFatal =>
              /\ fatals[f].group \in DOMAIN containers
              /\ \E k \in DOMAIN containers[fatals[f].group].pending :
                    LET s == containers[fatals[f].group].pending[k]
                    IN  slots[s].name = fatals[f].member /\ Resolved(s) /\ slots[s].err

\* the failure of the second member has been fatal twice: to an operation
\* of the test and to the LogFile of the group's onDestroy callback
C9_Witness ==
    /\ Len(fatals) = 2
    /\ fatals[1].fmt = CreateFatal
    /\ fatals[2] = fatals[1]
    /\ Len(containers[fatals[1].group].pending) = 2
    /\ fatals[1].member = slots[containers[fatals[1].group].pending[2]].name

\* C10 (as claimed): every fatal failure of Exec names the member and the
\* command.
C10_ExecFatalNamesCommand ==
    \A f \in 1..Len(fatals) :
        fatals[f].fmt \in {ExecErrFatal, ExecCodeFatal} =>
            fatals[f].member # <<>> /\ fatals[f].cmd

\* C10 (amended): the answer to a member's Exec call is fatal exactly when
\* it is an error or an exit code other than the expected one; the fatal
\* failure names the member, and for the exit code also the command.
C10_ExecFatalIff ==
    (main.answer # <<>> /\ main.answer[1] = "Exec") =>
        LET out == main.answer[2]
            expect == main.answer[3]
            name == main.answer[4]
            bad == out = "err" \/ ExitCode(out) # expect
        IN  /\ bad => /\ Len(fatals) = 1
                      /\ fatals[1].member = name
                      /\ fatals[1].fmt = IF out = "err" THEN ExecErrFatal ELSE ExecCodeFatal
                      /\ fatals[1].cmd = (out # "err")
                      /\ main.pc = "destroy"
            /\ ~bad => fatals = <<>> /\ main.pc \in {"incall", "idle"}

\* Exec expecting exit code 1 has returned from a group of two members
\* that both exited with 1
C10_Witness ==
    /\ main.answer # <<>>
    /\ main.answer[1] = "Exec"
    /\ main.answer[2] = "exit1"
    /\ main.answer[3] = 1
    /\ main.pc = "idle"
    /\ fatals = <<>>
    /\ Len(handles[1].pending) = 2

\* C11: Destroy asks for the logs or the termination of a member only after
\* its pendingContainer is resolved, and only of a member that was created;
\* while Destroy waits for a member, that member's createFn is still
\* running towards its close, and a createFn that has not finished can
\* always take its next step, whatever the test goroutine has done.
C11_TeardownAfterResolved ==
    /\ \A s \in SlotIds :
          (history[s].logs > 0 \/ history[s].terminates > 0) =>
              /\ Resolved(s)
              /\ slots[s].container # NilContainer
              /\ ~slots[s].err
    /\ main.pc \in {"dlogs", "dterm"} =>
          Resolved(containers[main.g].pending[main.i])
    /\ main.pc \in {"dwait", "dlogs", "dterm"} =>
          \A j \in 1..(main.i - 1) : Resolved(containers[main.g].pending[j])
    /\ (main.pc = "dwait" /\ ~Resolved(containers[main.g].pending[main.i])) =>
          /\ ~TaskDone(tasks[containers[main.g].pending[main.i]])
          /\ history[containers[main.g].pending[main.i]].closes = 0
    /\ Len(tasks) = Len(slots)
    /\ \A s \in SlotIds : ~TaskDone(tasks[s]) => ENABLED TaskStep(s, "ok")

\* the test has failed fatally, and Destroy asks for the termination of a
\* member whose createFn has closed the channel and is still running
C11_Witness ==
    /\ fatals # <<>>
    /\ main.pc = "dterm"
    /\ LET s == containers[main.g].pending[main.i]
       IN  /\ ~TaskDone(tasks[s])
           /\ TaskProgram[tasks[s].pc] = "finish"
           /\ history[s].terminates = 1

\* Destroy was cut short by a t.Fatalf inside a group's onDestroy callback
CallbackFatal == main.pc = "done" /\ main.ctx = "callback"

\* Destroy has returned or was cut short, and not because the callback's
\* own copy of a file failed
DestroyOver ==
    /\ main.pc = "done"
    /\ main.dctx = "defer"
    /\ CallbackFatal => fatals[Len(fatals)].fmt = CreateFatal

\* C12 (as claimed): the log is finalized only when every pendingContainer
\* of every registered group is resolved; and when a creation has failed,
\* Destroy still ends with the log finalized.
C12_FinalizedAfterResolved ==
    /\ worldLog.finalized > 0 => \A s \in SlotIds : Resolved(s)
    /\ (DestroyOver /\ worldLog.enabled /\ \E s \in SlotIds : slots[s].err) =>
          worldLog.finalized = 1

\* C13 (as claimed): whatever creations, log collections and terminations
\* fail, Destroy ends with every pendingContainer resolved, Terminate
\* requested once for every created member and for no other, the log
\* finalized, and no fatal failure raised on the way.
C13_TeardownCompletes ==
    DestroyOver =>
        /\ \A s \in SlotIds :
              /\ Resolved(s)
              /\ history[s].terminates = IF slots[s].err THEN 0 ELSE 1
        /\ worldLog.enabled => worldLog.finalized = 1
        /\ ~CallbackFatal

\* C14 (as claimed): a callback runs at most once, only for a group that
\* has one and only when all members of the group are handled; and when
\* Destroy is over every group with a callback has had it called once.
C14_CallbackOnce ==
    /\ \A g \in DOMAIN containers :
          /\ callbacks[g] <= 1
          /\ containers[g].onDestroy = "nil" => callbacks[g] = 0
          /\ callbacks[g] = 1 =>
                \A k \in DOMAIN containers[g].pending :
                    LET s == containers[g].pending[k]
                    IN  /\ Resolved(s)
                        /\ history[s].terminates = IF slots[s].err THEN 0 ELSE 1
    /\ main.ctx = "callback" => Target(main) = containers[main.g]
    /\ DestroyOver =>
          \A g \in DOMAIN containers :
              containers[g].onDestroy # "nil" => callbacks[g] = 1

\* C15 (as claimed): while a group's onDestroy callback runs, Terminate has
\* not been requested for any container of the group.
C15_CallbackBeforeTerminate ==
    (main.ctx = "callback" /\ main.pc \in {"waitReady", "incall"}) =>
        \A k \in DOMAIN containers[main.g].pending :
            history[containers[main.g].pending[k]].terminates = 0

\* C16: a Destroy call on a nil *World returns at once: the test is where
\* it was, and there is no event, no finalized log, no pendingContainer, no
\* provider call, no callback, no report and no fatal failure.
C16_NilDestroyNoOp ==
    main.nilDestroy =>
        /\ main.pc = "new"
        /\ main.destroyEv = NoEvent
        /\ worldLog.events = <<>>
        /\ worldLog.eventCounter = 0
        /\ worldLog.finalized = 0
        /\ slots = <<>>
        /\ tasks = <<>>
        /\ history = <<>>
        /\ callbacks = <<>>
        /\ fatals = <<>>
        /\ reported = <<>>

\* Destroy on a nil *World has returned, in a test whose log is enabled
C16_Witness ==
    /\ main.nilDestroy
    /\ worldLog.enabled

\* the pendingContainers of a group, as a set
Members(wc) == {wc.pending[k] : k \in DOMAIN wc.pending}

\* C17: the group NewContainer returns for Replicas = N has N
\* pendingContainers when N >= 1 and one when N is zero or negative, all of
\* them new and different; and what waitReady hands to a member-level
\* operation is one container per pendingContainer, in the order of the
\* pendingContainers, all different.
C17_ReplicaSlots ==
    /\ main.returned # 0 =>
          LET wc == handles[main.returned]
              n == Len(wc.pending)
          IN  /\ n = IF main.requested >= 1 THEN main.requested ELSE 1
              /\ \A k \in 1..n : wc.pending[k] = Len(slots) - n + k
              /\ containers[wc.Name].pending = wc.pending
    /\ \A h \in 1..Len(handles) :
          /\ Len(handles[h].pending) >= 1
          /\ Cardinality(Members(handles[h])) = Len(handles[h].pending)
          /\ \A g \in 1..Len(handles) :
                g # h => Members(handles[g]) \cap Members(handles[h]) = {}
    /\ main.pc = "incall" =>
          LET wc == Target(main)
          IN  /\ Len(main.got) = Len(wc.pending)
              /\ \A k \in DOMAIN wc.pending :
                    /\ main.got[k] = slots[wc.pending[k]].container
                    /\ main.got[k] # NilContainer
                    /\ \A j \in DOMAIN wc.pending : j # k => main.got[j] # main.got[k]

\* Wait has resolved a group of two replicas into two containers, in a
\* World whose other group has one
C17_Witness ==
    /\ main.pc = "incall"
    /\ Len(handles) = 2
    /\ Len(Target(main).pending) = 2
    /\ Len(main.got) = 2
    /\ \E h \in 1..Len(handles) : Len(handles[h].pending) = 1

\* C18: the only member of a group of one replica has the group's name;
\* member i of a group of N > 1 replicas, counted from 1 in the order of
\* the pendingContainers, has the group's name followed by "-" and i. The
\* container request of a member carries the member's name.
C18_MemberNames ==
    \A h \in 1..Len(handles) :
        LET wc == handles[h]
            n == Len(wc.pending)
        IN  \A i \in 1..n :
                /\ slots[wc.pending[i]].name =
                      IF n = 1 THEN wc.Name ELSE wc.Name \o <<"-">> \o <<Digits[i + 1]>>
                /\ tasks[wc.pending[i]].name = slots[wc.pending[i]].name

\* "T-a-1" has the members "T-a-1-1" and "T-a-1-2", and the only member
\* of "T-a-2" is "T-a-2"
C18_Witness ==
    /\ Len(handles) = 2
    /\ handles[1].Name = <<"T", "-", "a", "-", "1">>
    /\ Len(handles[1].pending) = 2
    /\ slots[handles[1].pending[1]].name = <<"T", "-", "a", "-", "1", "-", "1">>
    /\ slots[handles[1].pending[2]].name = <<"T", "-", "a", "-", "1", "-", "2">>
    /\ handles[2].Name = <<"T", "-", "a", "-", "2">>
    /\ Len(handles[2].pending) = 1
    /\ slots[handles[2].pending[1]].name = <<"T", "-", "a", "-", "2">>

\* the container of pendingContainer s exists on the World's network
Created(s) == tasks[s].res = "ok" /\ history[s].terminates = 0

\* the containers a lookup of name x on the World's network resolves to:
\* those whose request has x as its Name or among its NetworkAliases
Resolve(x) ==
    {s \in SlotIds :
        /\ Created(s)
        /\ \/ tasks[s].name = x
           \/ \E k \in DOMAIN tasks[s].aliases : tasks[s].aliases[k] = x}

\* no two containers on the network have the same Name
NamesDistinct ==
    \A s, t \in SlotIds : (Created(s) /\ Created(t) /\ s # t) => tasks[s].name # tasks[t].name

\* C19 (as claimed): every member's request has the group's name and the
\* member's own name as aliases, and once all members of a group are
\* created the group's name resolves to exactly the members of the group.
C19_GroupNameResolves ==
    \A h \in 1..Len(handles) :
        LET wc == handles[h]
        IN  /\ \A s \in Members(wc) :
                  /\ \E k \in DOMAIN tasks[s].aliases : tasks[s].aliases[k] = wc.Name
                  /\ \E k \in DOMAIN tasks[s].aliases : tasks[s].aliases[k] = slots[s].name
            /\ ((\A s \in Members(wc) : Created(s)) /\ NamesDistinct) =>
                  /\ Resolve(wc.Name) = Members(wc)
                  /\ Cardinality(Resolve(wc.Name)) = Len(wc.pending)

\* the kind NewContainer derived for the h-th group of the World
HandleKind(h) == tasks[handles[h].pending[1]].kind

\* the groups of a kind among the first h groups of the World
SameKind(kind, h) == {g \in 1..h : HandleKind(g) = kind}

\* C20: the name of the k-th group of a kind is the World's name, "-", the
\* kind, "-" and k, whatever groups of other kinds there are; so no two
\* groups have the same name, and the counter of a kind is the number of
\* groups of that kind.
C20_GroupNames ==
    /\ \A h \in 1..Len(handles) :
          handles[h].Name =
              WorldName \o <<"-">> \o HandleKind(h) \o <<"-">>
                  \o <<Digits[Cardinality(SameKind(HandleKind(h), h)) + 1]>>
    /\ \A g, h \in 1..Len(handles) : g # h => handles[g].Name # handles[h].Name
    /\ DOMAIN containerKinds = {HandleKind(h) : h \in 1..Len(handles)}
    /\ \A kind \in DOMAIN containerKinds :
          containerKinds[kind] = Cardinality(SameKind(kind, Len(handles)))

\* the two groups of kind "a" are "T-a-1" and "T-a-2"
C20_Witness ==
    /\ Len(handles) = 2
    /\ handles[1].Name = <<"T", "-", "a", "-", "1">>
    /\ handles[2].Name = <<"T", "-", "a", "-", "2">>
    /\ containerKinds = (<<"a">> :> 2)

\* the ids of the events of the WorldLog
EventIds == {el.events[k].id : k \in 1..Len(el.events)}

\* the newEvent calls that have got past the counter
Counted ==
    Len(el.events) - Cardinality({c \in Callers : callers[c].pc = "unlock"})

\* C21: however the newEvent calls of the goroutines interleave, the ids of
\* the n events recorded so far are pairwise distinct and are exactly
\* 0..n-1, and the counter is the number of calls that have passed it.
C21_IdsDistinctContiguous ==
    /\ \A i, j \in 1..Len(el.events) :
          i # j => el.events[i].id # el.events[j].id
    /\ EventIds = 0..(Len(el.events) - 1)
    /\ el.eventCounter = Counted

\* one goroutine is about to release the lock, another is waiting for it
\* with its time already read, and an event has been recorded before
C21_Witness ==
    \E c, d \in Callers :
        /\ c # d
        /\ callers[c].pc = "unlock"
        /\ el.lock = c
        /\ callers[d].pc = "lock"
        /\ Len(el.events) = 2

\* C22: of two events of one World, the one with the smaller id has a
\* start timestamp that is not later than the other's.
C22_IdsMonotonicInStartTime ==
    \A i, j \in 1..Len(el.events) :
        el.events[i].id < el.events[j].id
            => el.events[i].startTime <= el.events[j].startTime

\* the ids of the events whose files WorldLog.finish copied, in the order
\* it copied them
Copied == [k \in 1..Len(combinedLog.outputs) |-> combinedLog.outputs[k].id]

\* C23: WorldLog.finish copies the output of every event that has a file
\* into the combined log, each once, in increasing order of the ids,
\* however many events there are.
C23_ConcatenatedInIdOrder ==
    combinedLog.written =>
        /\ \A i, j \in 1..Len(Copied) : i < j => Copied[i] < Copied[j]
        /\ {Copied[k] : k \in 1..Len(Copied)}
               = {eventsDir[k].id : k \in 1..Len(eventsDir)}
        /\ Len(Copied) = Len(eventsDir)

\* the lines of the chart in the combined log
Bars == {combinedLog.gantt[k] : k \in 1..Len(combinedLog.gantt)}

DummyLog == [enabled |-> FALSE, events |-> <<>>, eventCounter |-> 0, finalized |-> 0]

\* the events the goroutines hold
HeldEvents ==
    {main.ev, main.awaitEv, main.createEv, main.destroyEv}
        \cup {tasks[s].event : s \in 1..Len(tasks)}

\* without a log path no id is allocated, no event is recorded, every
\* newEvent returns nil, and Event.finish and WorldLog.finish change nothing
DisabledInert == ~worldLog.enabled => worldLog = DummyLog /\ HeldEvents = {NoEvent}

\* the answer the provider has just given to a member-level call is fatal
\* here exactly if it is fatal for a call that holds an event
SameOutcome ==
    (~worldLog.enabled /\ main.pc = "incall" /\ main' # main) =>
        LET a == main'.answer
        IN  (fatals' # fatals) <=> (OpFatal(a[1], a[2], a[3], a[4], 1) # <<>>)

\* C24 (as claimed): without a log path the log is inert, and every answer
\* of the provider to a group operation has the fatal or non-fatal outcome it
\* has with a log.
C24_DisabledSameOutcome == []DisabledInert /\ [][SameOutcome]_vars

\* as SameOutcome, but for a file that fails while it is read
SameOutcomeButRead ==
    (~worldLog.enabled /\ main.pc = "incall" /\ main' # main) =>
        LET a == main'.answer
            unread == a[1] = "LogFile" /\ a[2] = "ioerr"
        IN  /\ ~unread =>
                  ((fatals' # fatals) <=> (OpFatal(a[1], a[2], a[3], a[4], 1) # <<>>))
            /\ unread => fatals' = fatals /\ main'.pc \in {"incall", "idle", "destroy"}

\* C24 (amended): without a log path the log is inert and every answer of
\* the provider has the outcome it has with a log, except that LogFile does
\* not read the file it has opened: a file that fails while it is read is
\* fatal with a log and goes unnoticed without one.
C24_DisabledInertButRead == []DisabledInert /\ [][SameOutcomeButRead]_vars

\* without a log path LogFile has returned from a group of two members
\* although the file of its second member failed while it was read
C24_Witness ==
    /\ ~worldLog.enabled
    /\ main.pc = "idle"
    /\ main.answer # <<>>
    /\ main.answer[1] = "LogFile"
    /\ main.answer[2] = "ioerr"
    /\ Len(handles) = 1
    /\ Len(handles[1].pending) = 2
    /\ main.answer[4] = slots[handles[1].pending[2]].name
    /\ fatals = <<>>

\* the member-level events of a log, in the order they were recorded
OpEvents(wl) ==
    SelectSeq(wl.events, LAMBDA e : e.desc.fmt \in {"exec", "wait", "log file"})

\* while a group operation has its call for member i in flight, the latest
\* i member-level events are those of members 1..i of the group, in that
\* order, each labelled with the member's own name; all but the last are
\* finished and the last is the event the operation holds
MemberEventsInOrder ==
    (main.pc = "incall" /\ worldLog.enabled) =>
        LET wc == Target(main)
            ev == OpEvents(worldLog)
            base == Len(ev) - main.i
        IN  /\ main.i \in 1..Len(wc.pending)
            /\ base >= 0
            /\ \A k \in 1..main.i :
                  /\ ev[base + k].desc = Desc(OpEventFmt(main.op), <<>>,
                                              slots[wc.pending[k]].name)
                  /\ ev[base + k].finished = (k < main.i)
            /\ main.ev \in 1..Len(worldLog.events)
            /\ worldLog.events[main.ev] = ev[base + main.i]

\* the provider's answer to the call in flight is the answer for member i;
\* unless it is fatal the operation goes on to member i+1 and records one
\* more member-level event, or returns after the last member
MemberCallsInOrder ==
    (main.pc = "incall" /\ main' # main) =>
        LET wc == Target(main)
            n == Len(wc.pending)
            more == Len(OpEvents(worldLog')) - Len(OpEvents(worldLog))
        IN  /\ main'.answer[4] = slots[wc.pending[main.i]].name
            /\ main'.pc = "incall" =>
                  /\ main.i < n
                  /\ main'.i = main.i + 1
                  /\ fatals' = fatals
                  /\ more = IF worldLog.enabled THEN 1 ELSE 0
            /\ main'.pc # "incall" =>
                  /\ more = 0
                  /\ fatals' = fatals => main.i = n

\* C26: a group operation issues its member-level calls one at a time in
\* the order of the members, and records one event per member, labelled
\* with the member's own name, in the same order.
C26_MembersInOrder == []MemberEventsInOrder /\ [][MemberCallsInOrder]_vars

\* Exec has its call for the second of two members in flight, after the
\* first member's call was answered and its event finished
C26_Witness ==
    /\ worldLog.enabled
    /\ main.pc = "incall"
    /\ main.op = "Exec"
    /\ main.i = 2
    /\ Len(Target(main).pending) = 2
    /\ main.answer # <<>>
    /\ main.answer[4] = slots[Target(main).pending[1]].name
    /\ Len(OpEvents(worldLog)) = 2

\* the "await" events recorded for a group
AwaitEvents(name) ==
    {k \in 1..Len(worldLog.events) :
        worldLog.events[k].desc = Desc("await", <<>>, name)}

\* C27: whatever operations are called on a group, through the handle of
\* the test or through the one passed to the teardown callback, the
\* timeline has at most one "await" event for the group.
C27_OneAwaitPerGroup ==
    \A g \in DOMAIN containers : Cardinality(AwaitEvents(g)) <= 1

\* pendingContainer s is resolved with a failure
FailedSlot(s) == Resolved(s) /\ slots[s].err

\* the step that ends waitReady: it fails exactly if the member it is at
\* has failed, that member is the first failed one in member order and the
\* failure names it; it succeeds exactly if it is at the last member and no
\* member has failed, and then returns the members' containers in member order
WaitReadyEnds ==
    (main.pc = "waitReady" /\ main'.pc # "waitReady") =>
        LET wc == Target(main)
            n == Len(wc.pending)
            failed == fatals' # fatals
        IN  /\ failed <=> \E k \in 1..n : FailedSlot(wc.pending[k])
            /\ failed =>
                  /\ FailedSlot(wc.pending[main.i])
                  /\ \A j \in 1..(main.i - 1) : ~FailedSlot(wc.pending[j])
                  /\ fatals' = Append(fatals, Fatal(CreateFatal, wc.Name,
                                                    slots[wc.pending[main.i]].name, FALSE))
            /\ ~failed =>
                  /\ main.i = n
                  /\ \A k \in 1..n : Resolved(wc.pending[k])
                  /\ main.op # "Await" =>
                        main'.got = [k \in 1..n |-> slots[wc.pending[k]].container]

\* while waitReady is at member i the members before it are resolved
\* without failure, so it waits for one member at a time, in member order
WaitReadyInOrder ==
    main.pc = "waitReady" =>
        /\ main.i \in 1..Len(Target(main).pending)
        /\ Len(main.got) = main.i - 1
        /\ \A j \in 1..(main.i - 1) :
              Resolved(Target(main).pending[j]) /\ ~slots[Target(main).pending[j]].err

\* C28: waitReady goes through the members in member order; it reports a
\* failure exactly if a member has failed, names the first failed member
\* and waits for no member after it; otherwise it returns the containers
\* of all members in member order.
C28_WaitReadyShortCircuits == []WaitReadyInOrder /\ [][WaitReadyEnds]_vars

\* waitReady has failed on the first of two members while the second was
\* not yet resolved
C28_Witness ==
    /\ Len(fatals) = 1
    /\ fatals[1].fmt = CreateFatal
    /\ Len(containers[fatals[1].group].pending) = 2
    /\ fatals[1].member = slots[containers[fatals[1].group].pending[1]].name
    /\ ~Resolved(containers[fatals[1].group].pending[2])
    /\ main.pc = "dwait"

\* the answer for member i is fatal: the operation is over at once, with no
\* event recorded and so no call made for member i+1, and the event of
\* member i is not finished
MemberFailureAborts ==
    (main.pc = "incall" /\ fatals' # fatals) =>
        /\ Len(fatals') = Len(fatals) + 1
        /\ main'.pc \in {"destroy", "done"}
        /\ main'.op = "none"
        /\ Len(OpEvents(worldLog')) = Len(OpEvents(worldLog))
        /\ worldLog.enabled =>
              /\ worldLog'.events[main.ev] = worldLog.events[main.ev]
              /\ ~worldLog'.events[main.ev].finished

\* the event of a member whose call failed stays unfinished: for every
\* fatal failure of a member-level call that names its member there is an
\* unfinished member-level event of that member
FailedMemberEventOpen ==
    \A f \in 1..Len(fatals) :
        (worldLog.enabled /\ fatals[f].fmt # CreateFatal /\ fatals[f].member # <<>>) =>
            \E k \in 1..Len(worldLog.events) :
                /\ worldLog.events[k].desc.fmt \in {"exec", "wait", "log file"}
                /\ worldLog.events[k].desc.who = fatals[f].member
                /\ ~worldLog.events[k].finished

\* C29: when the call for member i of Exec, Wait or LogFile fails, the
\* operation ends there: no call is made for a later member, and the event
\* of member i is never finished.
C29_MemberFailureAborts == []FailedMemberEventOpen /\ [][MemberFailureAborts]_vars

\* Exec failed on the first of two members: the log has one member-level
\* event, unfinished, and Destroy has run to its end
C29_Witness ==
    /\ worldLog.enabled
    /\ main.pc = "done"
    /\ Len(fatals) = 1
    /\ fatals[1].fmt \in {ExecErrFatal, ExecCodeFatal}
    /\ Len(handles) = 1
    /\ Len(handles[1].pending) = 2
    /\ fatals[1].member = slots[handles[1].pending[1]].name
    /\ Len(OpEvents(worldLog)) = 1
    /\ ~OpEvents(worldLog)[1].finished
    /\ worldLog.finalized = 1

\* how often Destroy has asked for the logs and for the termination of
\* pendingContainer s
Teardown(s) == <<history[s].logs, history[s].terminates>>

\* Destroy is at member main.i of group main.g
InGroup == main.pc \in {"dwait", "dlogs", "dterm"}

\* C30: Destroy handles the members of a group in member order: while it is
\* at member i the members before i are done with and those after i are
\* untouched; it asks for a created member's logs once, then for its
\* termination once, and for neither of a member whose creation failed.
C30_TeardownMemberOrder ==
    /\ \A s \in SlotIds :
          /\ Teardown(s) \in {<<0, 0>>, <<1, 0>>, <<1, 1>>}
          /\ (~Resolved(s) \/ slots[s].err) => Teardown(s) = <<0, 0>>
    /\ InGroup =>
          LET pending == containers[main.g].pending
          IN  /\ main.i \in 1..Len(pending)
              /\ \A j \in 1..(main.i - 1) :
                    /\ Resolved(pending[j])
                    /\ Teardown(pending[j]) =
                           IF slots[pending[j]].err THEN <<0, 0>> ELSE <<1, 1>>
              /\ \A j \in (main.i + 1)..Len(pending) : Teardown(pending[j]) = <<0, 0>>
              /\ Teardown(pending[main.i]) =
                     CASE main.pc = "dwait" -> <<0, 0>>
                       [] main.pc = "dlogs" -> <<1, 0>>
                       [] OTHER -> <<1, 1>>

\* Destroy has skipped the failed first member of a group and has asked for
\* the logs, not yet for the termination, of the second
C30_Witness ==
    /\ main.pc = "dlogs"
    /\ main.i = 2
    /\ Len(containers[main.g].pending) = 2
    /\ slots[containers[main.g].pending[1]].err
    /\ Teardown(containers[main.g].pending[1]) = <<0, 0>>
    /\ Teardown(containers[main.g].pending[2]) = <<1, 0>>

\* the test goroutine is inside Destroy's loop, or inside a callback
\* Destroy has called
InDestroy ==
    \/ main.pc \in {"destroy", "dwait", "dlogs", "dterm"}
    \/ main.ctx = "callback" /\ main.pc \in {"waitReady", "incall"}

\* the "World: destroy" event is recorded when Destroy begins and is open
\* as long as Destroy is at work
DestroyEventSpans ==
    (InDestroy /\ worldLog.enabled) =>
        /\ main.destroyEv \in 1..Len(worldLog.events)
        /\ worldLog.events[main.destroyEv].desc = Desc("World: destroy", <<>>, <<>>)
        /\ ~worldLog.events[main.destroyEv].finished
        /\ worldLog.finalized = 0

\* when the test goroutine has left Destroy, the log has been finalized
\* once and the destroy event is finished
DestroyFinalizesOnce ==
    /\ worldLog.finalized <= 1
    /\ (main.pc = "done" /\ worldLog.enabled) =>
          /\ worldLog.finalized = 1
          /\ worldLog.events[main.destroyEv].finished

\* once the log is finalized no event is recorded
NoEventAfterFinalize ==
    worldLog.finalized > 0 => Len(worldLog'.events) = Len(worldLog.events)

\* C31: the "World: destroy" event is recorded before Destroy waits for any
\* pendingContainer and finished after the last callback; every Destroy
\* finalizes the log exactly once, after that, and no event is recorded
\* after the log is finalized.
C31_DestroyEventAndFinalize ==
    /\ []DestroyEventSpans
    /\ []DestroyFinalizesOnce
    /\ [][NoEventAfterFinalize]_vars

NetworkFatal == Fatal("Failed to create network: %v", <<>>, <<>>, FALSE)

\* C32: New records the "World: Create" event, the first of the log, before
\* it asks for the network; when the network cannot be made New runs
\* Destroy, which finalizes the log, and only then fails the test, without
\* having returned a World: the test has no World, no group and made no
\* group operation.
C32_NewFailureDestroys ==
    /\ (worldLog.enabled /\ main.pc # "new") =>
          /\ Len(worldLog.events) >= 1
          /\ worldLog.events[1].id = 0
          /\ worldLog.events[1].desc = Desc("World: Create", <<>>, <<>>)
          /\ main.createEv = 1
    /\ main.dctx = "new" =>
          /\ main.pc \in {"destroy", "done"}
          /\ IsNil(WorldPtr(main))
          /\ handles = <<>> /\ containers = <<>> /\ slots = <<>>
          /\ main.nOps = 0
          /\ main.pc = "destroy" => fatals = <<>> /\ worldLog.finalized = 0
          /\ main.pc = "done" =>
                /\ fatals = <<NetworkFatal>>
                /\ worldLog.enabled =>
                      /\ worldLog.finalized = 1
                      /\ \A k \in 1..Len(worldLog.events) : worldLog.events[k].finished
    /\ main.dctx # "new" =>
          /\ \A f \in 1..Len(fatals) : fatals[f] # NetworkFatal
          /\ main.pc # "new" => ~IsNil(WorldPtr(main))

\* the network could not be made: Destroy has finalized the log with its
\* two events and New has failed the test
C32_Witness ==
    /\ main.dctx = "new"
    /\ main.pc = "done"
    /\ worldLog.enabled
    /\ worldLog.finalized = 1
    /\ Len(worldLog.events) = 2
    /\ fatals = <<NetworkFatal>>

\* ---- C33: log I/O failures are reported and abort nothing
\* os.Create has failed inside newEvent: the goroutine leaves newEvent with nil
SinkFailure ==
    \E c \in Callers : callers[c].pc = "create" /\ callers'[c].pc = "idle"

\* WorldLog.finish has returned an error
FinishFailure == combinedLog'.failed /\ ~combinedLog.failed

\* the goroutines are where a call that returned leaves them: nothing is held
\* by the one whose sink failed, and the teardown goroutine is past finish
LogFailureAbortsNothing ==
    /\ fatals' = fatals
    /\ \A c \in Callers :
          (callers[c].pc = "create" /\ callers'[c].pc = "idle")
              => callers'[c].event = NoEvent
    /\ FinishFailure => callers'[1].pc = "finished"

\* NewWorldLog has failed: New has reported it and the World logs inertly
CreateFailureInert ==
    ~el.world => /\ reported = LogFailureReport
                 /\ ~worldLog.enabled
                 /\ el.events = <<>>
                 /\ eventsDir = <<>>
                 /\ ~combinedLog.written
                 /\ \A c \in Callers : callers[c] = CallerInit
                 /\ fatals = <<>>

\* C33: a failure of NewWorldLog, of the creation of an event's file in
\* newEvent, or of WorldLog.finish is reported to the test with t.Log and
\* raises no fatal failure: the caller goes on, holding no event.
C33_LogFailuresReported ==
    /\ []CreateFailureInert
    /\ [][(SinkFailure \/ FinishFailure)
              => (reported' # <<>> /\ LogFailureAbortsNothing)]_vars

\* ---- C34: what a provisioning task writes
\* createFn s executes a statement
TaskSteps(s) ==
    /\ s \in 1..Len(tasks)
    /\ Len(tasks') = Len(tasks)
    /\ tasks'[s] # tasks[s]

\* the registry, the per-kind counters, the handles and every other slot are
\* as they were; the Timeline has at most one event more
TaskFrame(s) ==
    /\ containers' = containers
    /\ containerKinds' = containerKinds
    /\ handles' = handles
    /\ Len(slots') = Len(slots)
    /\ \A o \in 1..Len(slots) : o # s => slots'[o] = slots[o]
    /\ slots'[s].name = slots[s].name
    /\ Len(worldLog'.events) \in {Len(worldLog.events), Len(worldLog.events) + 1}

RegistryChanges == containers' # containers \/ containerKinds' # containerKinds

\* the step is a NewContainer call of the test goroutine: it returns a new
\* handle and no createFn moves
NewContainerReturns ==
    /\ main.pc = "idle"
    /\ main'.pc = "idle"
    /\ Len(handles') = Len(handles) + 1
    /\ main'.returned = Len(handles')
    /\ \A s \in 1..Len(tasks) : tasks'[s] = tasks[s]

\* C34: a statement of a provisioning task changes only the task's own
\* pendingContainer and the Timeline: w.containers, w.containerKinds and
\* every other pendingContainer stay as they are; w.containers and
\* w.containerKinds change only in a NewContainer call of the test goroutine.
C34_TaskWritesOwnSlot ==
    [][/\ \A s \in 1..Len(tasks) : TaskSteps(s) => TaskFrame(s)
       /\ RegistryChanges => NewContainerReturns]_vars

\* the second pendingContainer of a registered group is resolved while the
\* first one is untouched
C34_Witness ==
    /\ Len(slots) = 2
    /\ Len(handles) = 1
    /\ slots[2].ready
    /\ slots[2].container # NilContainer
    /\ ~slots[1].ready
    /\ slots[1].container = NilContainer
    /\ tasks[1].pc = 1
    /\ containerKinds # <<>>

\* ---- C35: the bar of an event that was never finished
\* the events of the rendered chart whose finish has not been called
NeverFinished ==
    {k \in 1..Len(combinedLog.gantt) : el.events[k].finishTime = ZeroTime}

\* C35: an event that has never been finished is rendered with the
\* Timeline's finish time as its finish time: its bar starts at the floor of
\* (start - timelineStart) / total * 80, its duration is timelineFinish -
\* start, so that it ends where the Timeline ends, and its length is the
\* floor of duration / total * 80, or 1 where that is less than 1.
C35_UnfinishedRunsToTeardown ==
    \A k \in NeverFinished :
        LET b == combinedLog.gantt[k]
        IN  /\ b.id = el.events[k].id
            /\ b.duration = el.finishTime - el.events[k].startTime
            /\ b.duration >= 0
            /\ b.startOffset + b.duration = b.totalDuration
            /\ b.startPos * b.totalDuration <= b.startOffset * timelineWidth
            /\ b.startOffset * timelineWidth < (b.startPos + 1) * b.totalDuration
            /\ b.duration * timelineWidth < b.totalDuration => b.barLen = 1
            /\ b.duration * timelineWidth >= b.totalDuration =>
                  /\ b.barLen * b.totalDuration <= b.duration * timelineWidth
                  /\ b.duration * timelineWidth < (b.barLen + 1) * b.totalDuration

\* the chart is written with a finished event and with an event that began
\* at 1 in a Timeline from 0 to 3 and was never finished: its bar is at 26
\* and 53 long
C35_Witness ==
    /\ combinedLog.written
    /\ el.finishTime = 3
    /\ \E k \in NeverFinished :
          /\ el.events[k].startTime = 1
          /\ combinedLog.gantt[k].duration = 2
          /\ combinedLog.gantt[k].startPos = 26
          /\ combinedLog.gantt[k].barLen = 53
    /\ \E k \in 1..Len(combinedLog.gantt) : el.events[k].finishTime # ZeroTime

\* ---- C36: no event is finished at or after finalization
\* Event.finish is called on event k in this step
Finishes(k) ==
    /\ k \in 1..Len(worldLog.events)
    /\ ~worldLog.events[k].finished
    /\ worldLog'.events[k].finished

\* the step is before w.worldLog.finish(), or it is the end of Destroy and k
\* is the "World: destroy" event, which Destroy finishes just before
BeforeFinalization(k) ==
    /\ worldLog.finalized = 0
    /\ worldLog'.finalized > 0 => k = main.destroyEv

\* C36: every event that is ever finished is finished before Destroy
\* finalizes the Timeline: neither the "World: add" event of a createFn nor
\* the "World: Create" event is finished once w.worldLog.finish() has begun.
C36_FinishedBeforeFinalize ==
    [][\A k \in 1..Len(worldLog.events) : Finishes(k) => BeforeFinalization(k)]_vars

\* ---- C37: member addresses and group names do not collide
\* no two pendingContainers of the World have the same name
MemberNamesDistinct ==
    \A s, t \in SlotIds : s # t => slots[s].name # slots[t].name

\* no member of a group has the name of another group
MemberNamesNoGroup ==
    \A g, h \in 1..Len(handles) :
        g # h => \A s \in Members(handles[g]) : slots[s].name # handles[h].Name

\* C37: within one World all member names are pairwise distinct and no
\* member name of one group is the name of a different group, whatever the
\* kinds and replica counts of the NewContainer calls, kinds that end in
\* "-<digits>" included.
C37_AddressesDistinct == MemberNamesDistinct /\ MemberNamesNoGroup

\* ---- C38: a fatal failure inside a teardown callback
\* every pendingContainer is received from and every created member is
\* terminated once
AllTornDown ==
    \A s \in SlotIds :
        /\ Resolved(s)
        /\ history[s].terminates = IF slots[s].err THEN 0 ELSE 1

\* C38: when a group's onDestroy callback has failed the test fatally
\* (mustReady on a failed member, or a file that cannot be copied), Destroy
\* has nevertheless handled every member of every registered group, called
\* the callback of every group that has one, and finalized the Timeline.
C38_CallbackFatalTolerated ==
    CallbackFatal =>
        /\ AllTornDown
        /\ \A g \in DOMAIN containers :
              containers[g].onDestroy # "nil" => callbacks[g] = 1
        /\ worldLog.enabled =>
              /\ worldLog.finalized = 1
              /\ worldLog.events[main.destroyEv].finished

\* ---- C39: progress of Await and of Destroy
\* a statement of the createFn goroutine s
TaskRuns(s) == \E res \in {"ok", "fail"} : TaskStep(s, res)

\* a statement of Destroy, or of a group operation its callback makes
DestroyRuns ==
    \/ \E g \in DOMAIN containers : DestroyGroup(g)
    \/ DestroyMember
    \/ \E ok \in BOOLEAN : DestroyLogs(ok)
    \/ \E ok \in BOOLEAN : DestroyTerminate(ok)
    \/ DestroyEnd

\* a statement of a group operation
OpRuns ==
    \/ WaitReady
    \/ \E out \in {"ok", "err", "ioerr", "exit0", "exit1"} : MemberCall(out)

\* every goroutine that can run does run: each createFn runs to its end and
\* so closes its channel, every provider call returns, and the test
\* goroutine goes on inside the operation or the Destroy it has begun; the
\* test is not made to begin anything
Fairness ==
    /\ \A s \in 1..MaxSlots : WF_vars(TaskRuns(s))
    /\ WF_vars(OpRuns)
    /\ WF_vars(DestroyRuns)

SpecFair == Spec /\ Fairness

\* the test goroutine is inside Await
InAwait == main.ctx = "test" /\ main.op = "Await" /\ main.pc = "waitReady"

\* the test goroutine waits in Destroy for a channel that is not closed
DestroyBlocked == InDestroy /\ ~ENABLED (DestroyRuns \/ OpRuns)

\* the createFn of the pendingContainer the test goroutine waits for has
\* not closed the channel
WaitsForTask ==
    /\ main.pc \in {"dwait", "waitReady"}
    /\ LET wc == containers[main.g]
       IN  /\ main.i \in DOMAIN wc.pending
           /\ ~slots[wc.pending[main.i]].ready
           /\ ~TaskDone(tasks[wc.pending[main.i]])

AwaitEnds == InAwait ~> ~InAwait

DestroyEndsFinalized ==
    InDestroy ~> (main.pc = "done" /\ (worldLog.enabled => worldLog.finalized = 1))

\* C39: when every createFn runs on and every provider call returns, every
\* Await returns or fails the test, and every Destroy that has begun ends
\* with the Timeline finalized; Destroy waits only for a createFn that has
\* not closed its channel.
C39_AwaitAndDestroyEnd ==
    /\ AwaitEnds
    /\ DestroyEndsFinalized
    /\ [](DestroyBlocked => WaitsForTask)

\* ---- C40: the handle and the registered copy
\* the pendingContainers of wc are resolved, all without an error
ResolvedOK(wc) ==
    \A k \in DOMAIN wc.pending :
        LET s == wc.pending[k]
        IN  /\ slots[s].ready
            /\ ~slots[s].err
            /\ slots[s].container # NilContainer

\* C40: the WorldContainer NewContainer returns and the copy in w.containers
\* have the same pendingContainers, as many as replicas and in the same
\* order, each one a pendingContainer that exists; and isReady is true, in a
\* handle or in a registered copy, only when every pendingContainer of the
\* group is resolved without an error.
C40_HandleAndCopyShareSlots ==
    /\ \A h \in 1..Len(handles) :
          LET wc == handles[h]
          IN  /\ wc.Name \in DOMAIN containers
              /\ Len(containers[wc.Name].pending) = Len(wc.pending)
              /\ \A k \in DOMAIN wc.pending :
                    /\ wc.pending[k] \in SlotIds
                    /\ containers[wc.Name].pending[k] = wc.pending[k]
                    /\ \A j \in DOMAIN wc.pending : j # k => wc.pending[j] # wc.pending[k]
              /\ wc.isReady => ResolvedOK(wc)
    /\ \A g \in DOMAIN containers : containers[g].isReady => ResolvedOK(containers[g])

\* a handle of two replicas is ready after an operation, and the registered
\* copy, which is not, has the same two pendingContainers
C40_Witness ==
    /\ Len(handles) >= 1
    /\ Len(handles[1].pending) = 2
    /\ handles[1].isReady
    /\ ResolvedOK(handles[1])
    /\ ~containers[handles[1].Name].isReady
    /\ containers[handles[1].Name].pending = handles[1].pending
    /\ main.pc = "idle"

====
